---- MODULE Spec2Model ----
(***************************************************************************)
(* A model of modelscope/app.py: the gradio session (message box, chatbot *)
(* transcript, gr.State history), the predict handler with the two        *)
(* functions it calls (init_knowledge_vector_store and                    *)
(* get_knowledge_based_answer), and clear_session.                        *)
(*                                                                        *)
(* Python lists are objects: the model keeps a heap of list objects and   *)
(* the variables of the program hold references into it, so that          *)
(* history.append (in place) and chat_history[-n:] (a copy) differ as     *)
(* they do in Python.                                                     *)
(***************************************************************************)
EXTENDS Integers, Sequences, FiniteSets, TLC

VARIABLES
    message,      \* gr.Textbox value
    chatbot,      \* gr.Chatbot value
    state,        \* gr.State value: None or a reference to a list
    heap,         \* the list objects, by reference
    req,          \* the frames of the handler calls in flight
    calls,        \* handler calls started in this process
    embLoads,     \* SentenceTransformer models constructed in this process
    llmClients,   \* ChatGLM clients constructed in this process
    served,       \* predict calls that returned their answer
    last_event,   \* how the latest finished handler ended
    last_answer   \* the file of the latest answer

vars == <<message, chatbot, state, heap, req, calls, embLoads, llmClients,
          served, last_event, last_answer>>

\* what the steps inside a call leave alone
counters == <<calls, embLoads, llmClients>>
session == <<served, last_event, last_answer>>

----------------------------------------------------------------------------
(* Bounds of the model *)

\* handler calls started in one run of the process
MaxCalls == 3
\* largest history_len the user picks on the slider
MaxHistoryLen == 2

----------------------------------------------------------------------------
(* Values *)

\* Python's None as a reference
None == 0

\* the workers of the request queue (one frame each)
Req == {1, 2}
\* the default queue runs one handler at a time
Req1 == {1}

\* list objects: the default argument of get_knowledge_based_answer, the
\* session's list, and per frame its history and its client's history
Ref == 1 .. (2 + 2 * Cardinality(Req))

Queries == {"q1", "q2"}
Answers == {"a1", "a2"}

\* app.py 19-23
embedding_model_dict ==
    [k \in {"ernie-tiny", "ernie-base", "text2vec-base"} |->
        CASE k = "ernie-tiny" -> "nghuyong/ernie-3.0-nano-zh"
          [] k = "ernie-base" -> "nghuyong/ernie-3.0-xbase-zh"
          [] k = "text2vec-base" -> "shibing624/text2vec-base-chinese"]

\* what the embedding_model input may be: two keys of the dictionary and one
\* that is not a key
EmbeddingChoices == {"ernie-tiny", "text2vec-base", "no-such-model"}

\* what the file input may be: nothing uploaded, two text files, a file with
\* no text element, a file the loader cannot read
FileChoices == {"None", "a.txt", "b.md", "empty.txt", "broken.docx"}
Loadable == {"a.txt", "b.md", "empty.txt"}

\* the text elements of a file, each with its source metadata
FileDocs(filepath) ==
    CASE filepath = "a.txt" ->
            <<[text |-> "a-1", source |-> filepath],
              [text |-> "a-2", source |-> filepath]>>
      [] filepath = "b.md" -> <<[text |-> "b-1", source |-> filepath]>>
      [] OTHER -> <<>>

\* what a client may do to its own history list
ClientEffects == {"keep", "append", "clear"}

TopKs == {1, 2}
\* temperature and top_p in hundredths
Temperatures == {1, 50}
TopPs == {90}
HistoryLens == 0 .. MaxHistoryLen

Min(a, b) == IF a < b THEN a ELSE b
Max(a, b) == IF a < b THEN b ELSE a

NoStore == [docs |-> <<>>, model |-> "None"]
NoLLM == [history |-> None, temperature |-> 0, top_p |-> 0]
NoPrompt == [context |-> <<>>, question |-> "None"]

\* a frame with no call in it
IdleFrame ==
    [pc |-> "idle", caller |-> "None",
     input |-> "None", embedding_model |-> "None", file_obj |-> "None",
     VECTOR_SEARCH_TOP_K |-> 0, history_len |-> 0, temperature |-> 0,
     top_p |-> 0, history |-> None, chat_history |-> None,
     embeddings |-> "None", docs |-> <<>>, vector_store |-> NoStore,
     chatLLM |-> NoLLM, retrieved |-> <<>>, prompt |-> NoPrompt,
     resp |-> "None",
     \* what the properties read: the steps taken, the history the call was
     \* given (the reference and the turns then), the history the model was
     \* handed, the history returned
     trace |-> <<>>, arg0 |-> None, history0 |-> <<>>, seen |-> <<>>,
     result |-> <<>>]

----------------------------------------------------------------------------
(* Python lists *)

\* s[i:] for a Python list s and an integer i
PySliceFrom(s, i) ==
    LET start == IF i < 0 THEN Max(Len(s) + i, 0) ELSE Min(i, Len(s))
    IN  SubSeq(s, start + 1, Len(s))

\* the default value of chat_history, one list made when the function is
\* defined (app.py 44)
DefaultChatHistory == 1

\* the references the program holds
Roots(st, rq) ==
    ({DefaultChatHistory, st}
        \cup {rq[r].history : r \in Req}
        \cup {rq[r].chat_history : r \in Req}
        \cup {rq[r].chatLLM.history : r \in Req}) \ {None}

\* a list no variable refers to is gone
Collect(h, st, rq) ==
    [x \in Ref |-> IF x \in Roots(st, rq) THEN h[x] ELSE <<>>]

\* the reference of a new list object
NewList(st, rq) ==
    CHOOSE x \in Ref \ Roots(st, rq) : \A y \in Ref \ Roots(st, rq) : x <= y

\* the list a reference stands for, None read as predict reads it (90-91)
ListOf(ref) == IF ref = None THEN <<>> ELSE heap[ref]

----------------------------------------------------------------------------
(* The functions of app.py *)

\* the slice without the test of history_len
TruncateHistory_unguarded(chat_history, history_len) ==
    PySliceFrom(chat_history, -history_len)

\* app.py 62: chat_history[-history_len:] if history_len > 0 else []
TruncateHistory(chat_history, history_len) ==
    IF history_len > 0 THEN PySliceFrom(chat_history, -history_len) ELSE <<>>

\* the loader reads one fixed file, whatever the upload
loader_load_fixed(filepath) == FileDocs("a.txt")

\* app.py 33-34: UnstructuredFileLoader(filepath, mode="elements").load()
loader_load(filepath) == FileDocs(filepath)

\* app.py 36: FAISS.from_documents(docs, embeddings)
FAISS_from_documents(docs, embeddings) == [docs |-> docs, model |-> embeddings]

\* app.py 68-69: the retriever's search, the k nearest documents of the store
\* (at most all of them)
similarity_search(vector_store, query, k) ==
    SubSeq(vector_store.docs, 1, Min(k, Len(vector_store.docs)))

\* app.py 49-58: the template filled with the context and the question
PromptTemplate(context, question) == [context |-> context, question |-> question]

\* what gr.Chatbot shows for a value: the turns of a list, nothing for '' or None
Transcript(c) == IF c.value = "list" THEN c.turns ELSE <<>>

\* an exception unwinds the frame: the locals are gone, no output is written
Raise(f) ==
    [IdleFrame EXCEPT !.pc = "error", !.caller = f.caller, !.trace = f.trace,
                      !.arg0 = f.arg0, !.history0 = f.history0]

\* the frame after a step
Step(f, name, next) == [f EXCEPT !.pc = next, !.trace = Append(f.trace, name)]

AllIdle == \A r \in Req : req[r].pc = "idle"

----------------------------------------------------------------------------
(* The state after construction *)

Init ==
    /\ message = ""
    /\ chatbot = [value |-> "None", turns |-> <<>>]
    /\ state = None
    /\ heap = [x \in Ref |-> <<>>]
    /\ req = [r \in Req |-> IdleFrame]
    /\ calls = 0
    /\ embLoads = 0
    /\ llmClients = 0
    /\ served = 0
    /\ last_event = "none"
    /\ last_answer = "None"

----------------------------------------------------------------------------
(* predict, step by step *)

\* the frame of r becomes g; what no variable refers to any more is collected
Frame(r, g, h) ==
    /\ req' = [req EXCEPT ![r] = g]
    /\ heap' = Collect(h, state, req')
    /\ last_event' = IF g.pc = "error" THEN "error" ELSE last_event

\* app.py 82-92 with the inputs of 168-173: the handler reads the components,
\* makes a list when the state is None, and reads file_obj.name
handler(r, Embeddings, Files, Ks, Ls, Ts) ==
    /\ req[r].pc = "idle"
    /\ calls < MaxCalls
    /\ \E input \in Queries, embedding_model \in Embeddings,
          file_obj \in Files, k \in Ks, history_len \in Ls,
          temperature \in Ts, top_p \in TopPs :
          LET history == IF state = None THEN NewList(state, req) ELSE state
              f == [IdleFrame EXCEPT
                      !.caller = "predict", !.input = input,
                      !.embedding_model = embedding_model,
                      !.file_obj = file_obj, !.VECTOR_SEARCH_TOP_K = k,
                      !.history_len = history_len,
                      !.temperature = temperature, !.top_p = top_p,
                      !.history = history, !.arg0 = state,
                      !.history0 = ListOf(state)]
          IN  /\ Frame(r, IF file_obj = "None"
                          THEN Raise(Step(f, "predict", "error"))
                          ELSE Step(f, "predict", "embeddings"), heap)
              /\ message' = input
    /\ calls' = calls + 1
    /\ UNCHANGED <<chatbot, state, embLoads, llmClients, served, last_answer>>

\* a click on send (or Enter in the message box) with any inputs, the
\* temperature at the slider's value of 0.01
predict(r) ==
    handler(r, EmbeddingChoices, FileChoices, TopKs, HistoryLens, {1})

\* app.py 28-31: the embedding model of the key, loaded anew
HuggingFaceEmbeddings(r) ==
    LET f == req[r] IN
    /\ f.pc = "embeddings"
    /\ \/ /\ f.embedding_model \notin DOMAIN embedding_model_dict
          /\ Frame(r, Raise(Step(f, "embeddings", "error")), heap)
          /\ UNCHANGED embLoads
       \/ /\ f.embedding_model \in DOMAIN embedding_model_dict
          /\ Frame(r, [Step(f, "embeddings", "load") EXCEPT
                    !.embeddings = embedding_model_dict[f.embedding_model]],
                   heap)
          /\ embLoads' = embLoads + 1
    /\ UNCHANGED <<message, chatbot, state, calls, llmClients, served,
                   last_answer>>

\* app.py 33-34: the loader reads the file
UnstructuredFileLoader(r) ==
    LET f == req[r] IN
    /\ f.pc = "load"
    /\ \/ /\ f.file_obj \notin Loadable
          /\ Frame(r, Raise(Step(f, "load", "error")), heap)
       \/ /\ f.file_obj \in Loadable
          /\ Frame(r, [Step(f, "load", "index") EXCEPT
                    !.docs = loader_load(f.file_obj)], heap)
    /\ UNCHANGED <<message, chatbot, state, counters, served, last_answer>>

\* app.py 36-37: the index of the documents; no index of no document
init_knowledge_vector_store(r) ==
    LET f == req[r] IN
    /\ f.pc = "index"
    /\ \/ /\ f.docs = <<>>
          /\ Frame(r, Raise(Step(f, "index", "error")), heap)
       \/ /\ f.docs # <<>>
          /\ Frame(r, [Step(f, "index", "llm") EXCEPT
                    !.vector_store = FAISS_from_documents(f.docs, f.embeddings),
                    \* app.py 95-103: the arguments of the call
                    !.chat_history = f.history], heap)
    /\ UNCHANGED <<message, chatbot, state, counters, served, last_answer>>

\* the client's history is the caller's list itself, not a copy of its end
ChatGLM_shared_history(r) ==
    LET f == req[r] IN
    /\ f.pc = "llm"
    /\ Frame(r, [Step(f, "llm", "retrieve") EXCEPT
                !.chatLLM = [history |-> f.chat_history,
                             temperature |-> f.temperature,
                             top_p |-> f.top_p]], heap)
    /\ llmClients' = llmClients + 1
    /\ UNCHANGED <<message, chatbot, state, calls, embLoads, served,
                   last_answer>>

\* app.py 60-64: a new client, its history a new list (a slice or [])
ChatGLM(r) ==
    LET f == req[r]
        new == NewList(state, req)
    IN
    /\ f.pc = "llm"
    /\ Frame(r, [Step(f, "llm", "retrieve") EXCEPT
                !.chatLLM = [history |-> new, temperature |-> f.temperature,
                             top_p |-> f.top_p]],
             [heap EXCEPT ![new] =
                TruncateHistory(heap[f.chat_history], f.history_len)])
    /\ llmClients' = llmClients + 1
    /\ UNCHANGED <<message, chatbot, state, calls, embLoads, served,
                   last_answer>>

\* app.py 66-73: the chain first asks the retriever
as_retriever(r) ==
    LET f == req[r] IN
    /\ f.pc = "retrieve"
    /\ Frame(r, [Step(f, "retrieve", "compose") EXCEPT
                !.retrieved = similarity_search(f.vector_store, f.input,
                                                f.VECTOR_SEARCH_TOP_K)], heap)
    /\ UNCHANGED <<message, chatbot, state, counters, served, last_answer>>

\* the question goes into the history as soon as the prompt is made
compose_records_question(r) ==
    LET f == req[r] IN
    /\ f.pc = "compose"
    /\ Frame(r, [Step(f, "compose", "generate") EXCEPT
                !.prompt = PromptTemplate(f.retrieved, f.input)],
             [heap EXCEPT ![f.history] = Append(@, <<f.input, "None">>)])
    /\ UNCHANGED <<message, chatbot, state, counters, served, last_answer>>

\* app.py 57-58, 73: then fills the template
compose(r) ==
    LET f == req[r] IN
    /\ f.pc = "compose"
    /\ Frame(r, [Step(f, "compose", "generate") EXCEPT
                !.prompt = PromptTemplate(f.retrieved, f.input)], heap)
    /\ UNCHANGED <<message, chatbot, state, counters, served, last_answer>>

\* what the client does to the list in its history field while it generates
ClientEffect(own, turn, effect) ==
    CASE effect = "keep" -> own
      [] effect = "append" -> Append(own, turn)
      [] effect = "clear" -> <<>>

\* app.py 73-75: then calls the client, which answers or fails. The function
\* returns the answer and its locals, the client among them, are gone.
generate(r) ==
    LET f == req[r]
        g == [Step(f, "generate",
                   IF f.caller = "predict" THEN "append" ELSE "done") EXCEPT
                !.seen = heap[f.chatLLM.history], !.chatLLM = NoLLM,
                !.chat_history = None]
    IN
    /\ f.pc = "generate"
    /\ \E answer \in Answers, effect \in ClientEffects :
          LET h == [heap EXCEPT ![f.chatLLM.history] =
                      ClientEffect(@, <<f.prompt.question, answer>>, effect)]
          IN  \/ Frame(r, Raise(g), h)
              \/ Frame(r, [g EXCEPT !.resp = answer], h)
    /\ UNCHANGED <<message, chatbot, state, counters, served, last_answer>>

\* the turn is put in front of the list
history_append_front(r) ==
    LET f == req[r] IN
    /\ f.pc = "append"
    /\ Frame(r, Step(f, "append", "return"),
             [heap EXCEPT ![f.history] = <<<<f.input, f.resp>>>> \o @])
    /\ UNCHANGED <<message, chatbot, state, counters, served, last_answer>>

\* the turn is appended as soon as the prompt is there, the answer or not
history_append_eager(r) ==
    LET f == req[r] IN
    /\ f.pc \in {"generate", "append"}
    /\ Frame(r, Step(f, "append", "return"),
             [heap EXCEPT ![f.history] = Append(@, <<f.input, f.resp>>)])
    /\ UNCHANGED <<message, chatbot, state, counters, served, last_answer>>

\* app.py 104-105: history.append((input, resp)), in place
history_append(r) ==
    LET f == req[r] IN
    /\ f.pc = "append"
    /\ Frame(r, Step(f, "append", "return"),
             [heap EXCEPT ![f.history] = Append(@, <<f.input, f.resp>>)])
    /\ UNCHANGED <<message, chatbot, state, counters, served, last_answer>>

\* the chatbot is given the turns from before this call
predict_return_stale(r) ==
    LET f == req[r] IN
    /\ f.pc = "return"
    /\ message' = ""
    /\ chatbot' = [value |-> "list", turns |-> f.history0]
    /\ state' = f.history
    /\ req' = [req EXCEPT ![r] =
            [Step(f, "return", "done") EXCEPT
                !.result = heap[f.history], !.history = None]]
    /\ heap' = Collect(heap, state', req')
    /\ served' = served + 1
    /\ last_event' = "answer"
    /\ last_answer' = f.file_obj
    /\ UNCHANGED counters

\* app.py 106 with the outputs of 173: '' to the message box, the list to the
\* chatbot and to the state
predict_return(r) ==
    LET f == req[r] IN
    /\ f.pc = "return"
    /\ message' = ""
    /\ chatbot' = [value |-> "list", turns |-> heap[f.history]]
    /\ state' = f.history
    /\ req' = [req EXCEPT ![r] =
            [Step(f, "return", "done") EXCEPT
                !.result = heap[f.history], !.history = None]]
    /\ heap' = Collect(heap, state', req')
    /\ served' = served + 1
    /\ last_event' = "answer"
    /\ last_answer' = f.file_obj
    /\ UNCHANGED counters

\* the call is over, with its answer or its error
release(r) ==
    /\ req[r].pc \in {"done", "error"}
    /\ req' = [req EXCEPT ![r] = IdleFrame]
    /\ heap' = Collect(heap, state, req')
    /\ UNCHANGED <<message, chatbot, state, counters, session>>

\* only the chatbot is given a value
clear_session_transcript_only ==
    /\ chatbot' = [value |-> "''", turns |-> <<>>]
    /\ last_event' = "clear"
    /\ UNCHANGED <<state, heap, message, req, counters, served, last_answer>>

\* app.py 78-79 with the outputs of 174-177: '' to the chatbot, None to the
\* state
clear_session ==
    /\ chatbot' = [value |-> "''", turns |-> <<>>]
    /\ state' = None
    /\ heap' = Collect(heap, state', req)
    /\ last_event' = "clear"
    /\ UNCHANGED <<message, req, counters, served, last_answer>>

\* the steps of a call in flight
Run(r) ==
    \/ HuggingFaceEmbeddings(r)
    \/ UnstructuredFileLoader(r)
    \/ init_knowledge_vector_store(r)
    \/ ChatGLM(r)
    \/ as_retriever(r)
    \/ compose(r)
    \/ generate(r)
    \/ history_append(r)
    \/ predict_return(r)
    \/ release(r)

----------------------------------------------------------------------------
(* The session of one user, who waits for each answer: one handler at a time *)

send_click == AllIdle /\ predict(1)
clear_history_click == AllIdle /\ clear_session

Next ==
    \/ send_click
    \/ clear_history_click
    \/ Run(1)

Spec == Init /\ [][Next]_vars

----------------------------------------------------------------------------
(* The design of spec section 5: one worker per request, each independently *)
(* schedulable; clear_session is not queued (queue=False, app.py 177)       *)

\* two users' clicks with a file uploaded and a model chosen
predict_concurrent(r) ==
    handler(r, {"ernie-tiny"}, {"a.txt"}, {1}, {1}, Temperatures)

NextConc ==
    \/ \E r \in Req : predict_concurrent(r)
    \/ \E r \in Req : Run(r)
    \/ clear_session

SpecConc == Init /\ [][NextConc]_vars

----------------------------------------------------------------------------
(* get_knowledge_based_answer as a function of its own: called with a      *)
(* chat_history list, or with none (the default list of app.py 44)         *)

get_knowledge_based_answer(r) ==
    /\ AllIdle
    /\ calls < MaxCalls
    /\ \E query \in Queries, history_len \in HistoryLens,
          chat_history \in {DefaultChatHistory} \cup ({state} \ {None}) :
          Frame(r, [IdleFrame EXCEPT
                    !.pc = "llm", !.caller = "direct", !.input = query,
                    !.vector_store =
                        FAISS_from_documents(loader_load("a.txt"),
                            embedding_model_dict["ernie-tiny"]),
                    !.VECTOR_SEARCH_TOP_K = 1,
                    !.chat_history = chat_history,
                    !.history_len = history_len,
                    !.temperature = 1, !.top_p = 90,
                    !.trace = <<"call">>,
                    !.arg0 = chat_history, !.history0 = heap[chat_history]],
                heap)
    /\ calls' = calls + 1
    /\ UNCHANGED <<message, chatbot, state, embLoads, llmClients, served,
                   last_answer>>

NextApi ==
    \/ send_click
    \/ clear_history_click
    \/ get_knowledge_based_answer(1)
    \/ Run(1)

SpecApi == Init /\ [][NextApi]_vars

----------------------------------------------------------------------------
(* What the properties read *)

IsPrefix(s, t) == Len(s) <= Len(t) /\ \A i \in 1 .. Len(s) : s[i] = t[i]
Range(s) == {s[i] : i \in 1 .. Len(s)}
Count(s, x) == Cardinality({i \in 1 .. Len(s) : s[i] = x})
NoRepeat(s) == \A i, j \in 1 .. Len(s) : i < j => s[i] # s[j]
Did(f, step) == step \in Range(f.trace)

\* the n most recent turns of H, in their order
MostRecent(H, n) == SubSeq(H, Len(H) - Min(Len(H), n) + 1, Len(H))

\* the steps of predict, in the order of the source
StepOrder ==
    <<"predict", "embeddings", "load", "index", "llm", "retrieve", "compose",
      "generate", "append", "return">>

\* the frames whose model call has been made and has answered
Answered == {"append", "return", "done"}
\* the frames that hold an index
Indexed == {"llm", "retrieve", "compose", "generate", "append", "return", "done"}

----------------------------------------------------------------------------
(* The properties *)

\* C1: the history handed to the language model is exactly the
\* min(H, history_len) most recent turns of the session history, in their
\* order, and is empty when history_len = 0, whatever H is.
C1_HistoryTruncation ==
    \A r \in Req :
        LET f == req[r]
            H == Len(f.history0)
            m == IF f.pc \in Answered THEN f.seen ELSE heap[f.chatLLM.history]
        IN  (f.caller = "predict"
                /\ f.pc \in {"retrieve", "compose", "generate"} \cup Answered) =>
                /\ Len(m) = Min(H, f.history_len)
                /\ \A i \in 1 .. Len(m) : m[i] = f.history0[H - Len(m) + i]
                /\ (f.history_len = 0 => m = <<>>)

\* a model call that was handed the later one of two different turns
C1_Witness ==
    \E r \in Req :
        /\ req[r].pc = "append"
        /\ Len(req[r].history0) = 2
        /\ req[r].history0[1] # req[r].history0[2]
        /\ req[r].history_len = 1
        /\ req[r].seen = <<req[r].history0[2]>>

\* C2: the history a successful predict returns is the history it was given
\* followed by the one turn (query, answer) of the call, and no step but a
\* clear removes, changes or reorders a turn of the stored history.
C2_AppendOnly ==
    /\ [](\A r \in Req :
            (req[r].caller = "predict" /\ req[r].pc = "done") =>
                /\ req[r].result =
                        Append(req[r].history0, <<req[r].input, req[r].resp>>)
                /\ state # None
                /\ heap[state] = req[r].result)
    /\ [][state' # None => IsPrefix(ListOf(state), ListOf(state)')]_vars

\* a third turn returned after two
C2_Witness ==
    \E r \in Req :
        /\ req[r].pc = "done"
        /\ Len(req[r].history0) = 2
        /\ Len(req[r].result) = 3
        /\ req[r].result[1] # req[r].result[3]

C4_ErrorsTerminal ==
    \A r \in Req :
        /\ NoRepeat(req[r].trace)
        /\ req[r].pc = "error" =>
                /\ req[r].resp = "None"
                /\ last_event = "error"
                /\ state = req[r].arg0
                /\ ListOf(state) = req[r].history0
                /\ Transcript(chatbot) = req[r].history0

\* the model call fails in a session that holds a turn
C4_Witness ==
    \E r \in Req :
        /\ req[r].pc = "error"
        /\ req[r].trace[Len(req[r].trace)] = "generate"
        /\ Len(req[r].history0) >= 1

\* C5: the embedding model is loaded and the language-model client is
\* constructed at most once in the process.
C5_LoadedOnce == embLoads <= 1 /\ llmClients <= 1

\* C6: the steps of a predict call are taken in the order of the source, each
\* with the output of the one before: the index before the retrieval, the
\* retrieval before the prompt, the prompt before the model call, the answer
\* before the append.
C6_StrictSequence ==
    \A r \in Req :
        LET f == req[r] IN
        f.caller = "predict" =>
            /\ IsPrefix(f.trace, StepOrder)
            /\ f.pc # "error" =>
                /\ Did(f, "load") => f.embeddings # "None"
                /\ Did(f, "index") =>
                        f.docs # <<>> /\ f.vector_store # NoStore
                /\ Did(f, "retrieve") =>
                        f.vector_store # NoStore /\ f.retrieved # <<>>
                /\ Did(f, "compose") =>
                        f.prompt = PromptTemplate(f.retrieved, f.input)
                /\ Did(f, "generate") =>
                        f.prompt # NoPrompt /\ f.resp \in Answers
                /\ Did(f, "append") => f.resp \in Answers
                /\ (f.pc # "done" /\ ~Did(f, "append")) =>
                        heap[f.history] = f.history0

\* a call that took every step
C6_Witness == \E r \in Req : req[r].pc = "done" /\ req[r].trace = StepOrder

\* C7: of two predict requests in flight, each returns its own input history
\* plus its own turn, hands the model the end of its own input history, and
\* has its own client settings.
C7_RequestsIsolated ==
    \A r \in Req :
        LET f == req[r] IN
        f.caller = "predict" =>
            /\ f.pc = "done" =>
                    f.result = Append(f.history0, <<f.input, f.resp>>)
            /\ f.pc \in Answered =>
                    f.seen = MostRecent(f.history0, f.history_len)
            /\ f.chatLLM # NoLLM =>
                    /\ f.chatLLM.temperature = f.temperature
                    /\ f.chatLLM.top_p = f.top_p

\* C8: the history the model sees in a call of get_knowledge_based_answer is
\* the end of the chat_history of that call (of the empty list when none is
\* given), the default list never gains a turn, and what the client does to
\* its own history leaves the caller's list as it was.
C8_NoHiddenState ==
    /\ heap[DefaultChatHistory] = <<>>
    /\ \A r \in Req :
        LET f == req[r]
            given == IF f.caller = "direct" /\ f.arg0 = DefaultChatHistory
                     THEN <<>> ELSE f.history0
        IN  /\ f.pc \in Answered => f.seen = MostRecent(given, f.history_len)
            /\ f.pc = "append" => heap[f.history] = f.history0
            /\ (f.caller = "predict" /\ f.pc = "error") =>
                    ListOf(state) = f.history0
            /\ (f.caller = "direct" /\ f.pc \in {"done", "error"}
                    /\ f.arg0 # DefaultChatHistory) =>
                    state = f.arg0 /\ heap[state] = f.history0

\* a call with no chat_history, after an answer of the session
C8_Witness ==
    \E r \in Req :
        /\ req[r].caller = "direct"
        /\ req[r].pc = "done"
        /\ req[r].arg0 = DefaultChatHistory
        /\ req[r].history_len >= 1
        /\ served >= 1
        /\ state # None

\* C9: a predict call builds one index, of the file and with the embedding
\* model of that call, and what it retrieves and puts in the prompt comes
\* from that index only.
C9_IndexPerRequest ==
    \A r \in Req :
        LET f == req[r] IN
        f.caller = "predict" =>
            /\ Count(f.trace, "index") <= 1
            /\ f.pc \in Indexed =>
                /\ Count(f.trace, "index") = 1
                /\ f.vector_store.model = embedding_model_dict[f.embedding_model]
                /\ f.vector_store.docs # <<>>
                /\ \A d \in Range(f.vector_store.docs) : d.source = f.file_obj
                /\ \A d \in Range(f.retrieved) \cup Range(f.prompt.context) :
                        d \in Range(f.vector_store.docs) /\ d.source = f.file_obj

\* the second question, asked of another file than the first
C9_Witness ==
    \E r \in Req :
        /\ req[r].pc = "return"
        /\ last_answer = "a.txt"
        /\ req[r].file_obj = "b.md"
        /\ req[r].prompt.context # <<>>

\* C10: when no handler runs, the transcript shown holds the turns of the
\* session history in their order, both empty after a clear, both the
\* returned list after a predict, which leaves the message box empty.
C10_TranscriptInStep ==
    /\ AllIdle => Transcript(chatbot) = ListOf(state)
    /\ (AllIdle /\ last_event = "clear") =>
            Transcript(chatbot) = <<>> /\ ListOf(state) = <<>>
    /\ \A r \in Req :
            (req[r].caller = "predict" /\ req[r].pc = "done") =>
                /\ message = ""
                /\ Transcript(chatbot) = req[r].result
                /\ ListOf(state) = req[r].result

\* two turns stored and shown
C10_Witness ==
    /\ AllIdle
    /\ message = ""
    /\ Len(ListOf(state)) = 2
    /\ Transcript(chatbot) = ListOf(state)

====
